---- MODULE Spec2Model ----
(***************************************************************************)
(* QuickQuiz RAG chatbot core: the chunk index (rebuild_index, the gateway  *)
(* document sync), the keyword retriever and the chat engine.               *)
(*                                                                          *)
(* Text is a sequence of one-character strings.  The alphabet is letters,   *)
(* the sentence terminator "." and the blank " ".                           *)
(***************************************************************************)
EXTENDS Integers, Sequences, FiniteSets, TLC

(***************************************************************************)
(* Python string helpers                                                    *)
(***************************************************************************)
IsSpace(c) == c \in {" ", "\n", "\t"}

IsTerminator(c) == c \in {".", "!", "?"}

Min(a, b) == IF a <= b THEN a ELSE b

Max(a, b) == IF a >= b THEN a ELSE b

\* xs[:n + 1]: a slice that is one element too long
TakeInclusive(xs, n) == SubSeq(xs, 1, Min(n + 1, Len(xs)))

\* xs[:n] for n >= 0
Take(xs, n) == SubSeq(xs, 1, Min(n, Len(xs)))

\* xs[:n] where xs[-n:] is meant
FirstN(xs, n) == SubSeq(xs, 1, IF n <= Len(xs) THEN n ELSE Len(xs))

\* xs[-n:] for n > 0
LastN(xs, n) == SubSeq(xs, Max(1, Len(xs) - n + 1), Len(xs))

RECURSIVE lstrip(_)
lstrip(s) == IF s # <<>> /\ IsSpace(Head(s)) THEN lstrip(Tail(s)) ELSE s

RECURSIVE rstrip(_)
rstrip(s) ==
    IF s # <<>> /\ IsSpace(s[Len(s)]) THEN rstrip(SubSeq(s, 1, Len(s) - 1)) ELSE s

\* str.strip()
strip(s) == rstrip(lstrip(s))

(***************************************************************************)
(* Text Chunker: SQLiteDocumentRetriever._split_text_into_chunks            *)
(***************************************************************************)
\* re.split(r'(?<=[.!?])\s+', text): cut at every run of blanks that directly
\* follows a terminator; the run is dropped.  cur is the piece being read.
RECURSIVE SplitFrom(_, _, _)
SplitFrom(text, i, cur) ==
    IF i > Len(text) THEN <<cur>>
    ELSE IF IsSpace(text[i]) /\ i > 1 /\ IsTerminator(text[i - 1])
         THEN LET j == CHOOSE k \in i..Len(text) :
                          /\ \A m \in i..k : IsSpace(text[m])
                          /\ (k = Len(text) \/ ~IsSpace(text[k + 1]))
              IN <<cur>> \o SplitFrom(text, j + 1, <<>>)
         ELSE SplitFrom(text, i + 1, Append(cur, text[i]))

re_split_sentences(text) == SplitFrom(text, 1, <<>>)

max_chunks == 200

\* The loop over sentences: chunks emitted so far and the running buffer.
RECURSIVE ChunkLoop(_, _, _, _, _)
ChunkLoop(sentences, chunks, current_chunk, chunk_size, overlap) ==
    IF sentences = <<>> \/ Len(chunks) >= max_chunks
    THEN [chunks |-> chunks, current_chunk |-> current_chunk]
    ELSE LET sentence == Head(sentences)
             emit == current_chunk # <<>>
                     /\ Len(current_chunk) + Len(sentence) > chunk_size
             chunks1 == IF emit THEN Append(chunks, strip(current_chunk)) ELSE chunks
             seed == IF emit
                     THEN (IF overlap > 0 THEN LastN(current_chunk, overlap) ELSE <<>>)
                     ELSE current_chunk
             next == IF seed # <<>> THEN seed \o <<" ">> \o sentence ELSE sentence
         IN ChunkLoop(Tail(sentences), chunks1, next, chunk_size, overlap)

\* _split_text_into_chunks without its "Add final chunk" step
_split_text_into_chunks_no_final(text, chunk_size, overlap) ==
    IF text = <<>> \/ Len(text) < 10 THEN <<>>
    ELSE ChunkLoop(re_split_sentences(text), <<>>, <<>>, chunk_size, overlap).chunks

_split_text_into_chunks(text, chunk_size, overlap) ==
    IF text = <<>> \/ Len(text) < 10 THEN <<>>
    ELSE LET r == ChunkLoop(re_split_sentences(text), <<>>, <<>>, chunk_size, overlap)
         IN IF strip(r.current_chunk) # <<>> /\ Len(r.chunks) < max_chunks
            THEN Append(r.chunks, strip(r.current_chunk))
            ELSE r.chunks

\* rag_sync_helper.split_text_into_chunks: fixed-width character windows.
RECURSIVE SyncWindows(_, _, _, _)
SyncWindows(text, i, chunk_size, step) ==
    LET chunk == SubSeq(text, i + 1, Min(i + chunk_size, Len(text)))
        here == IF strip(chunk) # <<>> THEN <<chunk>> ELSE <<>>
    IN IF i + chunk_size >= Len(text) \/ i + step >= Len(text)
       THEN here
       ELSE here \o SyncWindows(text, i + step, chunk_size, step)

split_text_into_chunks(text, chunk_size, overlap) ==
    IF text = <<>> \/ Len(text) < chunk_size THEN <<text>>
    ELSE LET chunks == SyncWindows(text, 0, chunk_size, chunk_size - overlap)
         IN IF chunks # <<>> THEN chunks ELSE <<text>>

(***************************************************************************)
(* Model bounds.  chunk_size (500), overlap (50) and batch_size (50) of     *)
(* rebuild_index are scaled down so that a document of a few sentences      *)
(* spans several chunks and a batch fills after two chunks.                 *)
(***************************************************************************)
ChunkSize == 16

Overlap == 3

BatchSize == 2

MaxRebuilds == 2

MaxSaves == 2

MaxFaults == 1

MaxTs == 1

MIN_CONTENT_LENGTH == 20

MIN_TEXT_LENGTH == 20

Workers == {1, 2}

\* save_document requests the gateway serves at the same time.
MaxRequests == 3

Requests == 1..MaxRequests

\* settings.MICROSERVICES["rag_chatbot_service"]["timeout"]
ConfiguredTimeout == 45

\* The timeout save_document sets for its rebuild-index request.
RebuildRequestTimeout == 120

\* Texts handed to the chunker: up to MaxPieces pieces, each a sentence with
\* its terminator, a word without one, or a blank.
MaxPieces == 6

Pieces == {<<"a", "b", ".">>, <<" ">>, <<"c", "d", "e", "f", "g", "h">>, <<"i", "?">>}

RECURSIVE Concat(_)
Concat(parts) == IF parts = <<>> THEN <<>> ELSE Head(parts) \o Concat(Tail(parts))

ChunkerTexts == {Concat(ps) : ps \in UNION {[1..n -> Pieces] : n \in 0..MaxPieces}}

SmallChunkSize == 6

NoChunker ==
    [text |-> <<>>, chunk_size |-> ChunkSize, overlap |-> Overlap, chunks |-> <<>>,
     applied |-> FALSE]

DocIds == {"d1", "d2"}

Variants == {"services", "temp"}

Sentence7 == <<"a", "a", "a", "a", "a", "a", ".">>

\* three sentences, 23 characters: two chunks at ChunkSize
TextTwo == Sentence7 \o <<" ">> \o Sentence7 \o <<" ">> \o Sentence7

\* one unbroken sentence of 20 characters: a single chunk
TextOne == [i \in 1..19 |-> "b"] \o <<".">>

\* 12 characters: below MIN_TEXT_LENGTH
TextShort == [i \in 1..11 |-> "c"] \o <<".">>

\* What a client posts to save_document: extractedText and summary.
Uploads ==
    {[file_name |-> <<"a">>, extracted_text |-> TextTwo, summary |-> <<>>],
     [file_name |-> <<"b">>, extracted_text |-> TextOne, summary |-> TextTwo],
     [file_name |-> <<"b">>, extracted_text |-> <<>>, summary |-> TextOne],
     [file_name |-> <<"a">>, extracted_text |-> TextShort, summary |-> <<>>]}

\* documents.db as earlier save_document requests left it.
DocA ==
    [document_id |-> "d1", file_name |-> <<"a">>, extracted_text |-> TextTwo,
     summary |-> TextTwo]

DocB ==
    [document_id |-> "d2", file_name |-> <<"b">>, extracted_text |-> TextOne,
     summary |-> TextTwo]

Sources == {<<>>, <<DocB, DocA>>}

VARIABLES
    variant,          \* which rebuild_index is deployed: services/ or temp/
    gateway_docs,     \* documents.db, newest first
    document_chunks,  \* rag_chatbot.db document_chunks, in rowid order
    rb,               \* the executor's workers running rebuild_index
    save,             \* the save_document request in flight
    rebuilds,         \* rebuild requests started so far
    saves,            \* save_document requests started so far
    edits,            \* update_document / delete_document requests so far
    faults,           \* injected storage/document failures so far
    last_run,         \* how the latest undisturbed rebuild ended
    quiz_templates,   \* quiz_generator_service.db quiz_templates, as read
    query,            \* the latest search request: its query,
    top_k,            \*   its RetrievalConfig.top_k
    results,          \*   and the documents returned for it
    use_canned_responses,  \* GeminiChatAdapter.use_canned_responses
    conversations,    \* RAGChatEngine.conversations: id -> ConversationHistory
    chat_messages,    \* rag_chatbot.db chat_messages, in insertion order
    conversation_rows,  \* rag_chatbot.db conversations: id -> ConversationModel
    deletion,         \* the latest DELETE /conversations/{id} and what it returned
    next_uuid,        \* uuid4() values handed out so far, plus one
    clock,            \* datetime.now()
    turns,            \* chat requests handled so far
    turn,             \* the latest chat request: what it was given and did
    chunker,          \* a call of _split_text_into_chunks: arguments and result
    rag_chatbot,      \* the gateway's shared RAGChatbotClient
    save_requests     \* save_document requests at their rebuild-index step

index_vars == <<gateway_docs, rb, save, rebuilds, saves, edits, faults, last_run>>

search_vars == <<quiz_templates, query, top_k, results>>

chat_vars == <<use_canned_responses, conversations, chat_messages, conversation_rows,
               deletion, next_uuid, clock, turns, turn>>

client_vars == <<rag_chatbot, save_requests>>

vars == <<variant, document_chunks, index_vars, search_vars, chat_vars, chunker, client_vars>>

non_index_vars == <<search_vars, chat_vars, chunker, client_vars>>

non_search_vars == <<variant, document_chunks, index_vars, chat_vars, chunker, client_vars>>

(***************************************************************************)
(* Index: rebuild_index (services/ and temp/), rag_sync_helper, views       *)
(***************************************************************************)
IdleWorker ==
    [pc |-> "idle", docs |-> <<>>, doc_idx |-> 0, text_chunks |-> <<>>, chunk_idx |-> 0,
     batch_buffer |-> <<>>, chunks_created |-> 0, chunks_skipped |-> 0,
     session_ok |-> TRUE, count_before |-> 0, count_after |-> 0,
     timed_out |-> FALSE, faulted |-> {}, produced |-> {}, after_run |-> "none",
     clean |-> FALSE]

IdleSave == [pc |-> "idle", doc |-> <<>>]

Running(w) == rb[w].pc \in {"doc", "chunk", "commit", "final"}

Ended(w) == rb[w].pc \in {"done", "failed"}

\* get_gateway_documents(limit): newest first, LIMIT ?
get_gateway_documents(limit) == Take(gateway_docs, limit)

doc_limit(v) == IF v = "services" THEN 50 ELSE 100

\* A chunk id that also depends on when the rebuild ran, as the ids of the
\* gateway's direct sync do
timestamped_chunk_id(v, doc_id, chunk_idx) ==
    <<IF v = "services" THEN "doc" ELSE "chunk", doc_id, chunk_idx, rebuilds>>

\* chunk_id = f"doc_{doc_id}_{chunk_idx}" (services) / f"chunk_{doc_id}_{chunk_idx}" (temp)
rebuild_chunk_id(v, doc_id, chunk_idx) ==
    <<IF v = "services" THEN "doc" ELSE "chunk", doc_id, chunk_idx>>

\* chunk_id = f"{doc_id}_{idx}_{int(time.time())}"
sync_chunk_id(doc_id, idx, ts) == <<doc_id, idx, ts>>

\* The text rebuild_index indexes for a document.
\* services: (extracted_text or summary or "").strip()
\* temp: the longer of the two stripped fields, extracted_text on a tie
rebuild_text(v, doc) ==
    IF v = "services"
    THEN strip(IF doc.extracted_text # <<>> THEN doc.extracted_text ELSE doc.summary)
    ELSE LET extracted_text == strip(doc.extracted_text)
             summary_text == strip(doc.summary)
         IN IF Len(extracted_text) >= Len(summary_text) THEN extracted_text
            ELSE summary_text

min_length(v) == IF v = "services" THEN 10 ELSE MIN_CONTENT_LENGTH

ChunkIds(rows) == {rows[i].chunk_id : i \in 1..Len(rows)}

StoredIds == ChunkIds(document_chunks)

\* db.add_all(batch); db.commit() raises IntegrityError on a chunk_id that is
\* already stored or twice in the batch (chunk_id is UNIQUE).
CommitConflict(batch) ==
    \/ \E i \in 1..Len(batch) : batch[i].chunk_id \in StoredIds
    \/ \E i, j \in 1..Len(batch) : i < j /\ batch[i].chunk_id = batch[j].chunk_id

\* How a run that nothing disturbed ended.
RunKind(r) ==
    IF ~r.clean THEN "none"
    ELSE IF r.pc = "done" /\ r.faulted = {} /\ r.session_ok
         THEN (IF r.timed_out THEN "timeout" ELSE "full")
         ELSE "faulty"

\* A writer other than the worker itself touched the source or the store.
Disturb(f) ==
    [w \in Workers |-> IF f[w].pc = "idle" THEN f[w] ELSE [f[w] EXCEPT !.clean = FALSE]]

\* The executor hands a request to a free thread; its threads are
\* interchangeable, so the lowest free one is taken.
FreeWorker(w) ==
    /\ ~Running(w)
    /\ \A o \in Workers : o < w => Running(o)

\* rebuild_index up to the document loop: open the session, count, fetch.
StartRebuild(w, connect_fails) ==
    LET alone == \A o \in Workers \ {w} : ~Running(o)
        docs == get_gateway_documents(doc_limit(variant))
        base == [IdleWorker EXCEPT !.after_run = IF alone THEN last_run ELSE "none",
                                   !.clean = alone,
                                   !.count_before = Len(document_chunks),
                                   !.count_after = Len(document_chunks)]
        started ==
            IF connect_fails
            THEN [base EXCEPT !.pc = IF variant = "services" THEN "failed" ELSE "done",
                              !.faulted = {0}]
            ELSE IF docs = <<>> THEN [base EXCEPT !.pc = "done"]
            ELSE [base EXCEPT !.pc = "doc", !.docs = docs, !.doc_idx = 1]
    IN /\ FreeWorker(w)
       /\ rebuilds < MaxRebuilds
       /\ connect_fails => faults < MaxFaults
       /\ rb' = [Disturb(rb) EXCEPT ![w] = started]
       /\ rebuilds' = rebuilds + 1
       /\ faults' = IF connect_fails THEN faults + 1 ELSE faults
       /\ last_run' = IF started.pc \in {"done", "failed"} THEN RunKind(started)
                      ELSE last_run

\* POST /admin/rebuild-index: run_in_executor(executor, retriever.rebuild_index)
RebuildStart(w) ==
    /\ \E connect_fails \in BOOLEAN : StartRebuild(w, connect_fails)
    /\ UNCHANGED non_index_vars
    /\ UNCHANGED <<variant, gateway_docs, document_chunks, save, saves, edits>>

\* `continue` of the document loop (temp counts the document as skipped)
NextDoc(r, skipped) ==
    [r EXCEPT !.pc = "doc", !.doc_idx = r.doc_idx + 1, !.text_chunks = <<>>,
              !.chunk_idx = 0,
              !.chunks_skipped = IF variant = "temp" /\ skipped THEN @ + 1 ELSE @]

\* elapsed > max_duration answered by `return`: the pending batch is dropped
budget_exceeded_return(r) == [r EXCEPT !.pc = "done", !.timed_out = TRUE]

\* elapsed > max_duration: `break`, on to the final commit
budget_exceeded(r) == [r EXCEPT !.pc = "final", !.timed_out = TRUE]

\* Head of the document loop: the time-budget check, then the document's text
\* and its chunks.  doc_fails: the document cannot be read (a non-text field).
RebuildDoc(w) ==
    LET r == rb[w] IN
    /\ r.pc = "doc"
    /\ \E timeout, doc_fails \in BOOLEAN :
          /\ doc_fails => faults < MaxFaults /\ ~timeout /\ r.doc_idx <= Len(r.docs)
          /\ timeout => r.doc_idx <= Len(r.docs)
          /\ faults' = IF doc_fails THEN faults + 1 ELSE faults
          /\ rb' = [rb EXCEPT ![w] =
                IF r.doc_idx > Len(r.docs) THEN [r EXCEPT !.pc = "final"]
                ELSE IF timeout THEN budget_exceeded(r)
                ELSE IF doc_fails
                     THEN NextDoc([r EXCEPT !.faulted = @ \cup {r.doc_idx}], TRUE)
                ELSE LET text == rebuild_text(variant, r.docs[r.doc_idx])
                         text_chunks == _split_text_into_chunks(text, ChunkSize, Overlap)
                     IN IF text = <<>> \/ Len(text) < min_length(variant)
                        THEN NextDoc(r, TRUE)
                        ELSE IF text_chunks = <<>> THEN NextDoc(r, FALSE)
                        ELSE [r EXCEPT !.pc = "chunk", !.text_chunks = text_chunks,
                                       !.chunk_idx = 1]]
    /\ UNCHANGED non_index_vars
    /\ UNCHANGED <<variant, gateway_docs, document_chunks, save, rebuilds, saves, edits, last_run>>

\* After a chunk: the next chunk of the document, or the next document.
NextChunk(r) ==
    IF r.chunk_idx < Len(r.text_chunks) THEN [r EXCEPT !.chunk_idx = @ + 1]
    ELSE NextDoc(r, FALSE)

\* One iteration of the chunk loop: the existence check and the buffering;
\* once the buffer holds batch_size chunks the batch commit is next.
RebuildChunk(w) ==
    LET r == rb[w]
        doc_id == r.docs[r.doc_idx].document_id
        chunk_id == rebuild_chunk_id(variant, doc_id, r.chunk_idx - 1)
        chunk_text == r.text_chunks[r.chunk_idx]
        chunk == [chunk_id |-> chunk_id, document_id |-> doc_id,
                  topic |-> r.docs[r.doc_idx].file_name,
                  content |-> Take(IF variant = "temp" THEN strip(chunk_text)
                                   ELSE chunk_text, 5000),
                  chunk_index |-> r.chunk_idx - 1]
        buffer == Append(r.batch_buffer, chunk)
        buffered == [r EXCEPT !.batch_buffer = buffer, !.produced = @ \cup {chunk}]
    IN
    /\ r.pc = "chunk"
    /\ \E query_fails \in BOOLEAN :
          /\ query_fails => faults < MaxFaults /\ r.session_ok
          /\ faults' = IF query_fails THEN faults + 1 ELSE faults
          /\ IF ~r.session_ok
             THEN \* the session awaits a rollback: the query raises
                  /\ rb' = [rb EXCEPT ![w] = NextDoc(r, TRUE)]
                  /\ UNCHANGED document_chunks
             ELSE IF query_fails
             THEN /\ rb' = [rb EXCEPT ![w] =
                        NextDoc([r EXCEPT !.faulted = @ \cup {r.doc_idx}], TRUE)]
                  /\ UNCHANGED document_chunks
             ELSE IF chunk_id \in StoredIds
             THEN /\ rb' = [rb EXCEPT ![w] =
                        NextChunk([r EXCEPT !.chunks_skipped =
                                      IF variant = "temp" THEN @ + 1 ELSE @])]
                  /\ UNCHANGED document_chunks
             ELSE IF variant = "temp" /\ strip(chunk_text) = <<>>
             THEN /\ rb' = [rb EXCEPT ![w] =
                        NextChunk([r EXCEPT !.chunks_skipped = @ + 1])]
                  /\ UNCHANGED document_chunks
             ELSE /\ rb' = [rb EXCEPT ![w] =
                        IF Len(buffer) < BatchSize THEN NextChunk(buffered)
                        ELSE [buffered EXCEPT !.pc = "commit"]]
                  /\ UNCHANGED document_chunks
    /\ UNCHANGED non_index_vars
    /\ UNCHANGED <<variant, gateway_docs, document_chunks, save, rebuilds, saves, edits,
                   last_run>>

\* The batch commit of the chunk loop: db.add_all(batch_buffer); db.commit().
\* Another writer may have committed since the existence checks of the
\* buffered chunks.  services: a failure leaves the loop for the next
\* document, session and buffer as they are; temp: rollback, buffer emptied.
RebuildCommit(w) ==
    LET r == rb[w]
        buffer == r.batch_buffer
    IN
    /\ r.pc = "commit"
    /\ \E commit_fails \in BOOLEAN :
          /\ commit_fails => faults < MaxFaults
          /\ faults' = IF commit_fails THEN faults + 1 ELSE faults
          /\ IF commit_fails \/ CommitConflict(buffer)
             THEN /\ rb' = [rb EXCEPT ![w] =
                        LET f == [r EXCEPT !.faulted =
                                     IF commit_fails THEN @ \cup {r.doc_idx} ELSE @]
                        IN IF variant = "services"
                           THEN NextDoc([f EXCEPT !.session_ok = FALSE], FALSE)
                           ELSE NextChunk([f EXCEPT !.pc = "chunk", !.batch_buffer = <<>>])]
                  /\ UNCHANGED document_chunks
             ELSE /\ document_chunks' = document_chunks \o buffer
                  /\ rb' = [Disturb(rb) EXCEPT ![w] =
                        NextChunk([r EXCEPT !.pc = "chunk", !.batch_buffer = <<>>,
                                     !.chunks_created = @ + Len(buffer)])]
    /\ UNCHANGED non_index_vars
    /\ UNCHANGED <<variant, gateway_docs, save, rebuilds, saves, edits, last_run>>

\* A final commit that first deletes the stored chunks of the documents it
\* is about to write chunks for
RebuildFinalReplacing(w) ==
    LET r == rb[w] IN
    /\ r.pc = "final"
    /\ \E commit_fails \in BOOLEAN :
          LET fails == commit_fails \/ ~r.session_ok \/ CommitConflict(r.batch_buffer)
              f == [r EXCEPT !.faulted = IF commit_fails THEN @ \cup {r.doc_idx} ELSE @]
              ended ==
                  IF r.batch_buffer = <<>>
                  THEN [r EXCEPT !.pc = "done", !.count_after = Len(document_chunks)]
                  ELSE IF fails
                  THEN [f EXCEPT !.pc = IF variant = "services" THEN "failed" ELSE "done",
                                 !.session_ok = (variant = "temp"),
                                 !.batch_buffer = IF variant = "temp" THEN <<>> ELSE @,
                                 !.count_after = Len(document_chunks)]
                  ELSE [r EXCEPT !.pc = "done", !.batch_buffer = <<>>,
                                 !.chunks_created = @ + Len(r.batch_buffer),
                                 !.count_after = Len(document_chunks) + Len(r.batch_buffer)]
          IN /\ commit_fails =>
                   faults < MaxFaults /\ r.session_ok /\ r.batch_buffer # <<>>
             /\ faults' = IF commit_fails THEN faults + 1 ELSE faults
             /\ document_chunks' =
                   IF r.batch_buffer # <<>> /\ ~fails
                   THEN SelectSeq(document_chunks,
                            LAMBDA c : \A i \in 1..Len(r.batch_buffer) :
                                          r.batch_buffer[i].document_id # c.document_id)
                        \o r.batch_buffer
                   ELSE document_chunks
             /\ rb' = [(IF r.batch_buffer # <<>> /\ ~fails THEN Disturb(rb) ELSE rb)
                          EXCEPT ![w] = ended]
             /\ last_run' = RunKind(ended)
    /\ UNCHANGED non_index_vars
    /\ UNCHANGED <<variant, gateway_docs, save, rebuilds, saves, edits>>

\* After the loop: the final commit of what is still buffered, then the return
\* (services re-raises a failure; temp logs it, rolls back and returns).
RebuildFinal(w) ==
    LET r == rb[w] IN
    /\ r.pc = "final"
    /\ \E commit_fails \in BOOLEAN :
          LET fails == commit_fails \/ ~r.session_ok \/ CommitConflict(r.batch_buffer)
              f == [r EXCEPT !.faulted = IF commit_fails THEN @ \cup {r.doc_idx} ELSE @]
              ended ==
                  IF r.batch_buffer = <<>>
                  THEN [r EXCEPT !.pc = "done", !.count_after = Len(document_chunks)]
                  ELSE IF fails
                  THEN [f EXCEPT !.pc = IF variant = "services" THEN "failed" ELSE "done",
                                 !.session_ok = (variant = "temp"),
                                 !.batch_buffer = IF variant = "temp" THEN <<>> ELSE @,
                                 !.count_after = Len(document_chunks)]
                  ELSE [r EXCEPT !.pc = "done", !.batch_buffer = <<>>,
                                 !.chunks_created = @ + Len(r.batch_buffer),
                                 !.count_after = Len(document_chunks) + Len(r.batch_buffer)]
          IN /\ commit_fails =>
                   faults < MaxFaults /\ r.session_ok /\ r.batch_buffer # <<>>
             /\ faults' = IF commit_fails THEN faults + 1 ELSE faults
             /\ document_chunks' = IF r.batch_buffer # <<>> /\ ~fails
                                   THEN document_chunks \o r.batch_buffer
                                   ELSE document_chunks
             /\ rb' = [(IF r.batch_buffer # <<>> /\ ~fails THEN Disturb(rb) ELSE rb)
                          EXCEPT ![w] = ended]
             /\ last_run' = RunKind(ended)
    /\ UNCHANGED non_index_vars
    /\ UNCHANGED <<variant, gateway_docs, save, rebuilds, saves, edits>>

\* save_document: validation and insert_document (INSERT OR REPLACE).
SaveInsert(document_id, upload) ==
    LET extracted_text == strip(upload.extracted_text)
        summary == strip(upload.summary)
        extracted_text_valid == Len(extracted_text) >= MIN_TEXT_LENGTH
        summary_valid == Len(summary) >= MIN_TEXT_LENGTH
        document_data ==
            [document_id |-> document_id, file_name |-> upload.file_name,
             extracted_text |-> Take(IF summary_valid /\ ~extracted_text_valid
                                     THEN Take(summary, 5000) ELSE extracted_text, 5000),
             summary |-> Take(IF extracted_text_valid /\ ~summary_valid
                              THEN Take(extracted_text, 2000) ELSE summary, 2000)]
    IN
    /\ save.pc = "idle"
    /\ saves < MaxSaves
    /\ extracted_text_valid \/ summary_valid
    /\ gateway_docs' = <<document_data>>
                       \o SelectSeq(gateway_docs, LAMBDA d : d.document_id # document_id)
    /\ save' = [pc |-> "sync", doc |-> document_data]
    /\ saves' = saves + 1
    /\ rb' = Disturb(rb)
    /\ last_run' = "none"
    /\ UNCHANGED non_index_vars
    /\ UNCHANGED <<variant, document_chunks, rebuilds, edits, faults>>

MaxEdits == 2

\* The summaries update_document is asked to store.
UpdateSummaries == {TextOne}

\* PUT documents/<doc_id> with a summary: UPDATE documents SET summary = ?
\* (404 and no change when the document does not exist).
UpdateDocument(doc_id, summary) ==
    /\ \E i \in 1..Len(gateway_docs) :
          gateway_docs[i].document_id = doc_id /\ gateway_docs[i].summary # summary
    /\ gateway_docs' = [i \in 1..Len(gateway_docs) |->
                           IF gateway_docs[i].document_id = doc_id
                           THEN [gateway_docs[i] EXCEPT !.summary = summary]
                           ELSE gateway_docs[i]]
    /\ edits < MaxEdits
    /\ edits' = edits + 1
    /\ rb' = Disturb(rb)
    /\ last_run' = "none"
    /\ UNCHANGED non_index_vars
    /\ UNCHANGED <<variant, document_chunks, save, rebuilds, saves, faults>>

\* DELETE documents/<doc_id>: DELETE FROM documents WHERE id = ? (404 and no
\* change when the document does not exist); rag_chatbot.db is not touched.
DeleteDocument(doc_id) ==
    /\ \E i \in 1..Len(gateway_docs) : gateway_docs[i].document_id = doc_id
    /\ gateway_docs' = SelectSeq(gateway_docs, LAMBDA d : d.document_id # doc_id)
    /\ edits < MaxEdits
    /\ edits' = edits + 1
    /\ rb' = Disturb(rb)
    /\ last_run' = "none"
    /\ UNCHANGED non_index_vars
    /\ UNCHANGED <<variant, document_chunks, save, rebuilds, saves, faults>>

\* The rows insert_document_to_rag_db writes for a document.
sync_rows(doc_id, file_name, text_chunks, ts) ==
    [idx \in 1..Len(text_chunks) |->
        [chunk_id |-> sync_chunk_id(doc_id, idx - 1, ts), document_id |-> doc_id,
         topic |-> file_name,
         content |-> Take(text_chunks[idx], 5000), chunk_index |-> idx - 1]]

\* insert_document_to_rag_db without its DELETE of the document's chunks
SaveSyncWithoutDelete ==
    LET document_data == save.doc
        doc_id == document_data.document_id
        extracted_text == strip(document_data.extracted_text)
        summary_text == strip(document_data.summary)
        content == IF Len(extracted_text) >= Len(summary_text) THEN extracted_text
                   ELSE summary_text
        text_chunks == split_text_into_chunks(content, ChunkSize, Overlap)
        kept == document_chunks
    IN
    /\ save.pc = "sync"
    /\ \E ts \in 0..MaxTs, sync_fails \in BOOLEAN :
          /\ sync_fails => faults < MaxFaults /\ ts = 0
          /\ faults' = IF sync_fails THEN faults + 1 ELSE faults
          /\ IF sync_fails \/ content = <<>> \/ Len(content) < 20
             THEN UNCHANGED <<document_chunks, rb, last_run>>
             ELSE /\ document_chunks' = kept \o sync_rows(doc_id, document_data.file_name, text_chunks, ts)
                  /\ rb' = Disturb(rb)
                  /\ last_run' = "none"
    /\ save' = [save EXCEPT !.pc = "rebuild"]
    /\ UNCHANGED non_index_vars
    /\ UNCHANGED <<variant, gateway_docs, rebuilds, saves, edits>>

\* insert_document_to_rag_db: DELETE the document's chunks, INSERT the new
\* ones, commit; any failure leaves the table as it was and returns False.
SaveSync ==
    LET document_data == save.doc
        doc_id == document_data.document_id
        extracted_text == strip(document_data.extracted_text)
        summary_text == strip(document_data.summary)
        content == IF Len(extracted_text) >= Len(summary_text) THEN extracted_text
                   ELSE summary_text
        text_chunks == split_text_into_chunks(content, ChunkSize, Overlap)
        kept == SelectSeq(document_chunks, LAMBDA c : c.document_id # doc_id)
    IN
    /\ save.pc = "sync"
    /\ \E ts \in 0..MaxTs, sync_fails \in BOOLEAN :
          /\ sync_fails => faults < MaxFaults /\ ts = 0
          /\ faults' = IF sync_fails THEN faults + 1 ELSE faults
          /\ IF sync_fails \/ content = <<>> \/ Len(content) < 20
             THEN UNCHANGED <<document_chunks, rb, last_run>>
             ELSE /\ document_chunks' = kept \o sync_rows(doc_id, document_data.file_name, text_chunks, ts)
                  /\ rb' = Disturb(rb)
                  /\ last_run' = "none"
    /\ save' = [save EXCEPT !.pc = "rebuild"]
    /\ UNCHANGED non_index_vars
    /\ UNCHANGED <<variant, gateway_docs, rebuilds, saves, edits>>

\* save_document: rag_chatbot._make_request("POST", "/admin/rebuild-index")
SaveRebuild(w) ==
    /\ save.pc = "rebuild"
    /\ \E connect_fails \in BOOLEAN : StartRebuild(w, connect_fails)
    /\ save' = IdleSave
    /\ UNCHANGED non_index_vars
    /\ UNCHANGED <<variant, gateway_docs, document_chunks, saves, edits>>

\* The rebuild request fails (the RAG service is unreachable): logged, ignored.
SaveRebuildFailed ==
    /\ save.pc = "rebuild"
    /\ save' = IdleSave
    /\ UNCHANGED non_index_vars
    /\ UNCHANGED <<variant, gateway_docs, document_chunks, rb, rebuilds, saves, edits, faults,
                   last_run>>

(***************************************************************************)
(* Retriever: SQLiteDocumentRetriever.search_documents (services/, temp/)   *)
(***************************************************************************)
MaxTopK == 5

LowerChar(c) == CASE c = "A" -> "a" [] c = "B" -> "b" [] OTHER -> c

\* str.lower()
lower(s) == [i \in 1..Len(s) |-> LowerChar(s[i])]

\* str.split(): the maximal runs of non-blank characters
RECURSIVE SplitWords(_, _)
SplitWords(s, cur) ==
    IF s = <<>> THEN (IF cur = <<>> THEN <<>> ELSE <<cur>>)
    ELSE IF IsSpace(Head(s))
         THEN (IF cur = <<>> THEN <<>> ELSE <<cur>>) \o SplitWords(Tail(s), <<>>)
         ELSE SplitWords(Tail(s), Append(cur, Head(s)))

split(s) == SplitWords(s, <<>>)

\* needle in hay (substring)
Contains(hay, needle) ==
    \E i \in 0..(Len(hay) - Len(needle)) : SubSeq(hay, i + 1, i + Len(needle)) = needle

\* column.ilike(f"%{word}%")
ilike(column, word) == Contains(lower(column), lower(word))

RetrievedDocument(chunk, score) ==
    [document_id |-> chunk.document_id, chunk_id |-> chunk.chunk_id,
     content |-> chunk.content, topic |-> chunk.topic, category |-> "document",
     similarity_score |-> score]

\* Keep the first row of every chunk_id.
RECURSIVE Unique(_, _)
Unique(rows, seen) ==
    IF rows = <<>> THEN <<>>
    ELSE IF Head(rows).chunk_id \in seen THEN Unique(Tail(rows), seen)
         ELSE <<Head(rows)>> \o Unique(Tail(rows), seen \cup {Head(rows).chunk_id})

\* temp: one scan per query word over content and topic, concatenated
RECURSIVE MatchingChunks(_)
MatchingChunks(words) ==
    IF words = <<>> THEN <<>>
    ELSE SelectSeq(document_chunks,
                   LAMBDA c : ilike(c.content, Head(words)) \/ ilike(c.topic, Head(words)))
         \o MatchingChunks(Tail(words))

\* Scores are in tenths: 5 is 0.5.
\* services: one query, content ILIKE any query word (no word: no WHERE
\*   clause), LIMIT limit, score 0.5
\* temp: per-word scans, de-duplicated, [:limit], empty content dropped, 0.8
_search_stored_chunks(v, q, limit) ==
    LET query_words == split(lower(q)) IN
    IF v = "services"
    THEN LET chunks ==
                 Take(SelectSeq(document_chunks,
                         LAMBDA c : \/ query_words = <<>>
                                    \/ \E i \in 1..Len(query_words) :
                                          ilike(c.content, query_words[i])),
                      limit)
         IN [i \in 1..Len(chunks) |-> RetrievedDocument(chunks[i], 5)]
    ELSE LET unique_chunks == Take(Unique(MatchingChunks(query_words), {}), limit)
             valid == SelectSeq(unique_chunks, LAMBDA c : strip(c.content) # <<>>)
         IN [i \in 1..Len(valid) |->
                RetrievedDocument([valid[i] EXCEPT !.content = strip(@)], 8)]

\* QuizDataAccess.get_quiz_templates: rows as {name, description,
\* content_sections, created_at}
get_quiz_templates(limit) == Take(quiz_templates, limit)

\* QuizDataAccess.search_quiz_content: only a template with a "questions"
\* entry is looked at.
search_quiz_content(q, limit) ==
    LET templates == get_quiz_templates(limit * 2)
        hits == SelectSeq(templates,
                    LAMBDA t : /\ "questions" \in DOMAIN t
                               /\ t.questions # <<>>
                               /\ Contains(lower(t.questions), lower(q)))
    IN Take([i \in 1..Len(hits) |->
                [type |-> "quiz_template", subject |-> hits[i].subject,
                 content |-> Take(hits[i].questions, 500)]], limit)

_search_quiz_content(q, limit) ==
    LET quiz_content == search_quiz_content(q, limit)
    IN Take([i \in 1..Len(quiz_content) |->
                [document_id |-> <<"quiz", quiz_content[i].type>>,
                 chunk_id |-> <<"quiz", i - 1>>,
                 content |-> quiz_content[i].content,
                 topic |-> quiz_content[i].subject,
                 category |-> quiz_content[i].type,
                 similarity_score |-> 4]], limit)

\* sum(1 for word in query_words if word in content_words)
KeywordMatches(content, q) ==
    LET query_words == split(lower(q))
        content_words == split(lower(content))
    IN Cardinality({i \in 1..Len(query_words) :
                       \E j \in 1..Len(content_words) : content_words[j] = query_words[i]})

\* sorted(documents, key=score, reverse=True): stable, highest score first
RECURSIVE SortByScore(_)
SortByScore(docs) ==
    IF docs = <<>> THEN <<>>
    ELSE LET best == CHOOSE i \in 1..Len(docs) :
                        /\ \A j \in 1..Len(docs) :
                              docs[j].similarity_score <= docs[i].similarity_score
                        /\ \A j \in 1..(i - 1) :
                              docs[j].similarity_score < docs[i].similarity_score
         IN <<docs[best]>>
            \o SortByScore(SubSeq(docs, 1, best - 1) \o SubSeq(docs, best + 1, Len(docs)))

\* _rank_documents that takes 0.1 off per keyword match
_rank_documents_penalty(documents, q) ==
    SortByScore([i \in 1..Len(documents) |->
        [documents[i] EXCEPT !.similarity_score =
            Max(0, @ - KeywordMatches(documents[i].content, q))]])

_rank_documents(documents, q) ==
    SortByScore([i \in 1..Len(documents) |->
        [documents[i] EXCEPT !.similarity_score =
            Min(9, @ + KeywordMatches(documents[i].content, q))]])

\* search_documents that gives each search the half of top_k rounded up.
search_documents_rounding_up(v, q, k) ==
    LET stored_docs == _search_stored_chunks(v, q, (k + 1) \div 2)
        quiz_docs == _search_quiz_content(q, (k + 1) \div 2)
    IN Take(_rank_documents(stored_docs \o quiz_docs, q), k)

search_documents(v, q, k) ==
    LET stored_docs == _search_stored_chunks(v, q, k \div 2)
        quiz_docs == _search_quiz_content(q, k \div 2)
    IN Take(_rank_documents(stored_docs \o quiz_docs, q), k)

Row(doc_id, idx, topic, content) ==
    [chunk_id |-> <<"doc", doc_id, idx>>, document_id |-> doc_id, topic |-> topic,
     content |-> content, chunk_index |-> idx]

\* Chunk Store contents the searches run against.
SampleStores ==
    {<<>>,
     <<Row("d1", 0, <<"a">>, <<"a", "b", " ", "b", "a", ".">>),
       Row("d1", 1, <<"a">>, <<"b", "a", " ", "a", ".">>),
       Row("d2", 0, <<"b">>, <<"A", "b", " ", "a", "b", ".">>),
       Row("d2", 1, <<"b">>, <<"c", " ", "a", "b", " ", "b", "a">>),
       Row("d2", 2, <<"a", "b">>, <<"c", "c", ".">>)>>,
     <<Row("d3", 0, <<"c">>, <<"d", "o", "c", "u", "m", "e", "n", "t", ".">>)>>}

SampleTemplates ==
    {<<>>,
     <<[name |-> <<"a", "b">>, description |-> <<"a">>, content_sections |-> <<>>],
       [name |-> <<"b">>, description |-> <<"a", "b">>, content_sections |-> <<>>]>>}

Queries ==
    {<<"a", "b">>, <<"A", "B", " ", "b", "a">>, <<"c">>, <<"b", "a", " ", "a", "b", " ", "c">>,
     <<" ">>, <<"z">>}

NoSearch ==
    /\ quiz_templates = <<>>
    /\ query = <<>>
    /\ top_k = 0
    /\ results = <<>>

\* GET /search/documents, and the retrieval step of a chat turn
SearchDocuments(q, k) ==
    /\ query' = q
    /\ top_k' = k
    /\ results' = search_documents(variant, q, k)
    /\ UNCHANGED quiz_templates
    /\ UNCHANGED non_search_vars

(***************************************************************************)
(* Chat: GeminiChatAdapter, RAGChatEngine.chat, the chat endpoints          *)
(* (Vietnamese literals are written without their diacritics)               *)
(***************************************************************************)
MaxTurns == 1

MaxClock == 2

None == <<>>

ConvIds == {<<"c1">>}

model_fallback == <<"gemini-2.5-flash", "gemini-2.0-flash", "gemini-2.5-pro">>

APOLOGY == <<"Xin loi, toi khong the tra loi cau hoi nay luc nay. Vui long thu lai sau.">>

ERROR_ANSWER(e) == <<"Xin loi, da co loi xay ra khi xu ly cau hoi cua ban: ">> \o e

QUESTION_MARK == "=== CAU HOI ==="

\* What model.generate_content does for one model: it raises (an API error, a
\* timeout, a blocked response), or it answers with response.text.
LlmOutcomes ==
    {[raises |-> TRUE, text |-> <<>>],
     [raises |-> FALSE, text |-> <<>>],
     [raises |-> FALSE, text |-> <<"\n">>],
     [raises |-> FALSE, text |-> <<" ", "o", "k", "\n">>]}

\* The test made after the text is stripped.
AnswersAfterStrip(outcome) == ~outcome.raises /\ strip(outcome.text) # <<>>

\* `if response.text:` on a call that did not raise
Answers(outcome) == ~outcome.raises /\ outcome.text # <<>>

\* One outcome per model of model_fallback, in the order they are tried; the
\* models after the first one that answers are not called.
LlmRuns ==
    {llm \in [1..Len(model_fallback) -> LlmOutcomes] :
        \A i \in 1..Len(model_fallback) :
            (\E j \in 1..(i - 1) : Answers(llm[j]))
                => llm[i] = [raises |-> TRUE, text |-> <<>>]}

NoLlmRun == [i \in 1..Len(model_fallback) |-> [raises |-> TRUE, text |-> <<>>]]

\* The loop over model_fallback from model i on; last_resort is what is
\* returned when no model answered.
RECURSIVE TryModels(_, _, _)
TryModels(llm, i, last_resort) ==
    IF i > Len(model_fallback) THEN [text |-> last_resort, calls |-> Len(model_fallback)]
    ELSE IF Answers(llm[i])
         THEN [text |-> strip(llm[i].text), calls |-> i]
         ELSE TryModels(llm, i + 1, last_resort)

\* The loop ending in `return ""`
_generate_with_retry_no_apology(llm) == TryModels(llm, 1, <<>>)

_generate_with_retry(llm) == TryModels(llm, 1, APOLOGY)

canned_keywords ==
    <<<<"p", "y", "t", "h", "o", "n">>,
      <<"j", "a", "v", "a", "s", "c", "r", "i", "p", "t">>,
      <<"d", "a", "t", "a", "b", "a", "s", "e">>,
      <<"a", "p", "i">>>>

\* text.split(sep)[1] when sep occurs in text, else <<>>
RECURSIVE AfterToken(_, _)
AfterToken(text, sep) ==
    IF text = <<>> THEN <<>>
    ELSE IF Head(text) = sep THEN Tail(text)
         ELSE AfterToken(Tail(text), sep)

\* text.split("\n")[0]
RECURSIVE FirstLine(_)
FirstLine(text) ==
    IF text = <<>> \/ Head(text) = "\n" THEN <<>>
    ELSE <<Head(text)>> \o FirstLine(Tail(text))

_get_canned_response(messages) ==
    LET user_messages == SelectSeq(messages, LAMBDA m : m.role = "user") IN
    IF user_messages = <<>> THEN <<"canned: no question">>
    ELSE LET full_content == user_messages[Len(user_messages)].content
             marked == \E i \in 1..Len(full_content) : full_content[i] = QUESTION_MARK
             last_query == IF marked
                           THEN strip(FirstLine(strip(lower(AfterToken(full_content,
                                                                       QUESTION_MARK)))))
                           ELSE lower(full_content)
             hits == {i \in 1..Len(canned_keywords) : Contains(last_query, canned_keywords[i])}
         IN IF hits = {} THEN <<"canned: default">>
            ELSE <<"canned: ">> \o canned_keywords[CHOOSE i \in hits : \A j \in hits : i <= j]

generate_response(messages, llm) ==
    IF use_canned_responses
    THEN [text |-> _get_canned_response(messages), calls |-> 0]
    ELSE _generate_with_retry(llm)

ChatConfigs == {[max_context_docs |-> 1, include_sources |-> TRUE]}

RECURSIVE JoinParts(_)
JoinParts(parts) ==
    IF parts = <<>> THEN <<>>
    ELSE IF Len(parts) = 1 THEN Head(parts)
         ELSE Head(parts) \o <<"\n", "\n">> \o JoinParts(Tail(parts))

_build_context(retrieved_docs, config) ==
    IF retrieved_docs = <<>>
    THEN [retrieved_count |-> 0, context_used |-> FALSE, sources |-> <<>>,
          context_text |-> None]
    ELSE LET used == Take(retrieved_docs, config.max_context_docs)
             sources == [i \in 1..Len(used) |->
                            [document_id |-> used[i].document_id, topic |-> used[i].topic,
                             category |-> used[i].category,
                             similarity_score |-> used[i].similarity_score,
                             chunk_text |-> IF Len(used[i].content) > 200
                                            THEN Take(used[i].content, 200) \o <<"...">>
                                            ELSE used[i].content]]
             context_text_parts == [i \in 1..Len(used) |->
                                       <<"[">> \o used[i].topic \o <<"]", " ">>
                                               \o used[i].content]
         IN [retrieved_count |-> Len(retrieved_docs), context_used |-> Len(sources) > 0,
             sources |-> sources, context_text |-> JoinParts(context_text_parts)]

\* None when there is no id or no such conversation, else the last 6 messages
_get_conversation_history(conversation_id) ==
    IF conversation_id = None \/ conversation_id \notin DOMAIN conversations THEN None
    ELSE LET recent_messages == LastN(conversations[conversation_id].messages, 6)
         IN [i \in 1..Len(recent_messages) |->
                [role |-> recent_messages[i].role, content |-> recent_messages[i].content]]

_build_system_prompt(config) ==
    <<"system prompt">> \o (IF config.include_sources THEN <<"6. sources">> ELSE <<>>)

\* _build_user_prompt that puts the question before the documents.
_build_user_prompt_query_first(q, context, config) ==
    IF ~context.context_used \/ context.context_text = None
    THEN <<"Cau hoi: ">> \o q \o <<"\n", "\n", "Luu y: toi khong tim thay tai lieu nao.">>
    ELSE <<QUESTION_MARK, "\n">> \o q
            \o <<"\n", "\n", "=== TAI LIEU THAM KHAO ===", "\n">> \o context.context_text
            \o <<"\n", "\n">>
            \o (IF config.include_sources
                THEN <<"Hay tra loi dua tren cac tai lieu tren va de cap den nguon thong tin.">>
                ELSE <<"Hay tra loi dua tren cac tai lieu tren.">>)

_build_user_prompt(q, context, config) ==
    IF ~context.context_used \/ context.context_text = None
    THEN <<"Cau hoi: ">> \o q \o <<"\n", "\n", "Luu y: toi khong tim thay tai lieu nao.">>
    ELSE <<"=== TAI LIEU THAM KHAO ===", "\n">> \o context.context_text
            \o <<"\n", "\n", QUESTION_MARK, "\n">> \o q \o <<"\n", "\n">>
            \o (IF config.include_sources
                THEN <<"Hay tra loi dua tren cac tai lieu tren va de cap den nguon thong tin.">>
                ELSE <<"Hay tra loi dua tren cac tai lieu tren.">>)

\* The message list handed to the adapter: system, history, the user prompt.
llm_messages(q, context, conversation_history, config) ==
    <<[role |-> "system", content |-> _build_system_prompt(config)]>>
        \o conversation_history
        \o <<[role |-> "user", content |-> _build_user_prompt(q, context, config)]>>

_generate_response(q, context, conversation_history, config, llm) ==
    generate_response(llm_messages(q, context, conversation_history, config), llm)

\* The turn's two messages put in front of the stored ones.
_update_conversation_prepend(conversation_id, q, response) ==
    LET known == conversation_id \in DOMAIN conversations
        before == IF known THEN conversations[conversation_id].messages ELSE <<>>
        history == [conversation_id |-> conversation_id,
                    messages |-> <<[role |-> "user", content |-> q],
                                   [role |-> "assistant", content |-> response]>> \o before]
    IN [c \in DOMAIN conversations \cup {conversation_id} |->
           IF c = conversation_id THEN history ELSE conversations[c]]

\* The conversations map after the turn's two messages are appended.
_update_conversation(conversation_id, q, response) ==
    LET known == conversation_id \in DOMAIN conversations
        before == IF known THEN conversations[conversation_id].messages ELSE <<>>
        history == [conversation_id |-> conversation_id,
                    messages |-> before \o <<[role |-> "user", content |-> q],
                                             [role |-> "assistant", content |-> response]>>]
    IN [c \in DOMAIN conversations \cup {conversation_id} |->
           IF c = conversation_id THEN history ELSE conversations[c]]

retrieve_documents(q, k) == search_documents(variant, q, k)

\* top_k: int = Query(default=5, ...)
DefaultTopK == 5

ChatQueries == {<<"a", "b">>, <<"a", "p", "i">>}

\* The broader search tried when nothing was retrieved:
\* retrieve_documents(query="document", config=RetrievalConfig(top_k=10))
FALLBACK_QUERY == <<"d", "o", "c", "u", "m", "e", "n", "t">>

FallbackTopK == 10

\* Which of the turn's three calls into the retriever raise: the retrieval,
\* get_document_count, the fallback retrieval.
RetrieverFaults ==
    {[retrieve |-> FALSE, count |-> FALSE, fallback |-> FALSE],
     [retrieve |-> TRUE, count |-> FALSE, fallback |-> FALSE],
     [retrieve |-> FALSE, count |-> FALSE, fallback |-> TRUE],
     [retrieve |-> TRUE, count |-> FALSE, fallback |-> TRUE],
     [retrieve |-> TRUE, count |-> TRUE, fallback |-> TRUE]}

\* (datetime.now() - start_time).total_seconds()
total_seconds(end_time, start_time) == end_time - start_time

RAGChatResponse(answer, context, conversation_id, start_time, end_time, retrieved_docs) ==
    [answer |-> answer, context |-> context, conversation_id |-> conversation_id,
     timestamp |-> start_time, processing_time |-> total_seconds(end_time, start_time),
     retrieved_documents |-> retrieved_docs]

\* The turn gets as far as the Language Model: neither get_document_count nor
\* the fallback retrieval raised.
reaches_llm(q, k, broken) ==
    /\ ~broken.count
    /\ ~(broken.fallback /\ (broken.retrieve \/ retrieve_documents(q, k) = <<>>))

\* chat that stores the user message before it asks for the reply, and the
\* reply after: a turn that ends in the error answer leaves the user message.
chat_user_message_first(q, k, config, conversation_id, broken, llm, start_time, end_time) ==
    LET retrieved_docs == IF broken.retrieve THEN <<>> ELSE retrieve_documents(q, k)
        raised == broken.count \/ (retrieved_docs = <<>> /\ broken.fallback)
        fallback_docs == IF retrieved_docs = <<>> /\ ~raised
                         THEN retrieve_documents(FALLBACK_QUERY, FallbackTopK) ELSE <<>>
        context == _build_context(retrieved_docs, config)
        history == _get_conversation_history(conversation_id)
        generated == _generate_response(q, context, history, config, llm)
        llm_response == generated.text
        known == conversation_id \in DOMAIN conversations
        asked == [c \in DOMAIN conversations \cup {conversation_id} |->
                     IF c = conversation_id
                     THEN [conversation_id |-> conversation_id,
                           messages |-> (IF known THEN conversations[c].messages ELSE <<>>)
                                           \o <<[role |-> "user", content |-> q]>>]
                     ELSE conversations[c]]
    IN IF raised
       THEN [response |-> RAGChatResponse(ERROR_ANSWER(<<"error">>),
                              [retrieved_count |-> 0, context_used |-> FALSE,
                               sources |-> <<>>, context_text |-> None],
                              conversation_id, start_time, end_time, <<>>),
             conversations |-> IF conversation_id # None THEN asked ELSE conversations,
             fallback_docs |-> <<>>,
             messages |-> <<>>, calls |-> -1]
       ELSE [response |-> RAGChatResponse(llm_response, context, conversation_id,
                              start_time, end_time, retrieved_docs),
             conversations |-> IF conversation_id # None
                               THEN _update_conversation(conversation_id, q, llm_response)
                               ELSE conversations,
             fallback_docs |-> fallback_docs,
             messages |-> llm_messages(q, context, history, config),
             calls |-> generated.calls]

\* RAGChatEngine.chat: the response, the conversations map it leaves, and
\* what it asked of the Language Model (calls = -1: never asked).
chat(q, k, config, conversation_id, broken, llm, start_time, end_time) ==
    LET retrieved_docs == IF broken.retrieve THEN <<>> ELSE retrieve_documents(q, k)
        raised == broken.count \/ (retrieved_docs = <<>> /\ broken.fallback)
        fallback_docs == IF retrieved_docs = <<>> /\ ~raised
                         THEN retrieve_documents(FALLBACK_QUERY, FallbackTopK) ELSE <<>>
        context == _build_context(retrieved_docs, config)
        history == _get_conversation_history(conversation_id)
        generated == _generate_response(q, context, history, config, llm)
        llm_response == generated.text
    IN IF raised
       THEN [response |-> RAGChatResponse(ERROR_ANSWER(<<"error">>),
                              [retrieved_count |-> 0, context_used |-> FALSE,
                               sources |-> <<>>, context_text |-> None],
                              conversation_id, start_time, end_time, <<>>),
             conversations |-> conversations, fallback_docs |-> <<>>,
             messages |-> <<>>, calls |-> -1]
       ELSE [response |-> RAGChatResponse(llm_response, context, conversation_id,
                              start_time, end_time, retrieved_docs),
             conversations |-> IF conversation_id # None
                               THEN _update_conversation(conversation_id, q, llm_response)
                               ELSE conversations,
             fallback_docs |-> fallback_docs,
             messages |-> llm_messages(q, context, history, config),
             calls |-> generated.calls]

\* log_chat_message: one chat_messages row (no conversations row exists to
\* update: nothing calls log_conversation); a failure is swallowed.
log_chat_message(conversation_id, user_query, assistant_response, fails) ==
    IF fails THEN chat_messages
    ELSE Append(chat_messages, [conversation_id |-> conversation_id,
                                user_query |-> user_query,
                                assistant_response |-> assistant_response])

\* user_query[:100]
MessagePreview(user_query) == Take(user_query, 100)

\* log_chat_message, after the chat_messages row is committed: the row of the
\* conversations table with that id, if there is one, counts the message and
\* takes its preview, in a commit of its own.
log_chat_message_conversation(conversation_id, user_query, fails) ==
    IF fails \/ conversation_id \notin DOMAIN conversation_rows
    THEN conversation_rows
    ELSE [conversation_rows EXCEPT
             ![conversation_id] =
                 [@ EXCEPT !.message_count = @ + 1,
                           !.last_message = MessagePreview(user_query)]]

\* The two messages one stored turn leaves in a conversation.
Exchange(q, response) ==
    <<[role |-> "user", content |-> q], [role |-> "assistant", content |-> response]>>

\* Conversations the engine may hold when a request arrives: none, one of one
\* turn, one of four turns.
SampleConversations ==
    {<<>>,
     [c \in {<<"c1">>} |->
        [conversation_id |-> c, messages |-> Exchange(<<"a", "b">>, <<"o", "k">>)]],
     [c \in {<<"c1">>} |->
        [conversation_id |-> c,
         messages |-> Exchange(<<"a", "b">>, <<"o", "k">>)
                         \o Exchange(<<"a", "p", "i">>, APOLOGY)
                         \o Exchange(<<"a", "b">>, APOLOGY)
                         \o Exchange(<<"a", "p", "i">>, <<"o", "k">>)]]}

MaxDeletes == 1

NoDeletion == [count |-> 0, conversation_id |-> None, success |-> FALSE, status |-> 0]

NoTurn ==
    [endpoint |-> "none", request_id |-> None, conversation_id |-> None, query |-> <<>>,
     top_k |-> 0, fallback_docs |-> <<>>,
     broken |-> [retrieve |-> FALSE, count |-> FALSE, fallback |-> FALSE],
     llm_attempts |-> <<>>, llm_called |-> FALSE, messages |-> <<>>,
     response |-> [answer |-> <<>>, context |-> [retrieved_count |-> 0,
                                                  context_used |-> FALSE,
                                                  sources |-> <<>>, context_text |-> None],
                   conversation_id |-> None, timestamp |-> 0, processing_time |-> 0,
                   retrieved_documents |-> <<>>],
     conversations_before |-> <<>>, uuids_before |-> 1,
     status |-> 0, logged |-> FALSE, log_key |-> None]

NoChat ==
    /\ use_canned_responses = FALSE
    /\ conversations = <<>>
    /\ chat_messages = <<>>
    /\ conversation_rows = <<>>
    /\ deletion = NoDeletion
    /\ next_uuid = 1
    /\ clock = 0
    /\ turns = 0
    /\ turn = NoTurn

\* _process_chat_request for a request that came in on `endpoint` with
\* request.conversation_id = request_id and is handled under conversation_id.
_process_chat_request(endpoint, request_id, conversation_id, q, k) ==
    /\ turns < MaxTurns
    /\ \E config \in ChatConfigs, broken \in RetrieverFaults,
          log_fails \in BOOLEAN, elapsed \in 0..1 :
       \E llm \in IF reaches_llm(q, k, broken) /\ ~use_canned_responses
                  THEN LlmRuns ELSE {NoLlmRun} :
       \E done \in {chat(q, k, config, conversation_id, broken, llm, clock, clock + elapsed)} :
          LET effective_conversation_id == conversation_id
              log_key == IF effective_conversation_id # None
                         THEN effective_conversation_id ELSE <<"standalone">>
          IN /\ clock + elapsed <= MaxClock
             /\ conversations' = done.conversations
             /\ chat_messages' = log_chat_message(log_key, q, done.response.answer,
                                                  log_fails)
             /\ conversation_rows' = log_chat_message_conversation(log_key, q, log_fails)
             /\ clock' = clock + elapsed
             /\ turn' = [endpoint |-> endpoint, request_id |-> request_id,
                         conversation_id |-> effective_conversation_id, query |-> q,
                         top_k |-> k, fallback_docs |-> done.fallback_docs,
                         broken |-> broken,
                         llm_attempts |-> IF done.calls > 0
                                          THEN SubSeq(llm, 1, done.calls) ELSE <<>>,
                         llm_called |-> done.calls >= 0,
                         messages |-> done.messages,
                         response |-> done.response,
                         conversations_before |-> conversations,
                         uuids_before |-> next_uuid,
                         status |-> 200, logged |-> ~log_fails, log_key |-> log_key]
    /\ turns' = turns + 1
    /\ UNCHANGED <<use_canned_responses, deletion>>
    /\ UNCHANGED <<variant, document_chunks, index_vars, search_vars, chunker, client_vars>>

\* POST /chat: a request without conversation_id is given a new uuid4
chat_with_rag(request_id, q, k) ==
    /\ IF request_id = None
       THEN /\ _process_chat_request("/chat", request_id, <<"uuid", next_uuid>>, q, k)
            /\ next_uuid' = next_uuid + 1
       ELSE /\ _process_chat_request("/chat", request_id, request_id, q, k)
            /\ UNCHANGED next_uuid

\* POST /chat/quick that takes a new uuid4 as POST /chat does
quick_chat_with_uuid(q, k) ==
    /\ k >= 1
    /\ _process_chat_request("/chat/quick", None, <<"uuid", next_uuid>>, q, k)
    /\ next_uuid' = next_uuid + 1

\* POST /chat/quick: conversation_id = None
quick_chat(q, k) ==
    /\ k >= 1
    /\ _process_chat_request("/chat/quick", None, None, q, k)
    /\ UNCHANGED next_uuid

\* POST /conversations/{conversation_id}/chat: the id of the URL
chat_in_conversation(conversation_id, q, k) ==
    /\ _process_chat_request("/conversations/{conversation_id}/chat", conversation_id,
                             conversation_id, q, k)
    /\ UNCHANGED next_uuid

\* RAGChatEngine.get_conversation: self.conversations.get(conversation_id)
get_conversation(conversation_id) ==
    IF conversation_id \in DOMAIN conversations
    THEN conversations[conversation_id] ELSE None

\* RAGChatEngine.delete_conversation: the map afterwards and the value returned
delete_conversation(conversation_id) ==
    IF conversation_id \in DOMAIN conversations
    THEN [conversations |->
              [c \in DOMAIN conversations \ {conversation_id} |-> conversations[c]],
          success |-> TRUE]
    ELSE [conversations |-> conversations, success |-> FALSE]

\* DELETE /conversations/{conversation_id}: 404 when the engine answers False.
\* Neither the engine nor the handler touches rag_chatbot.db.
DeleteConversation(conversation_id) ==
    /\ deletion.count < MaxDeletes
    /\ LET deleted == delete_conversation(conversation_id)
       IN /\ conversations' = deleted.conversations
          /\ deletion' = [count |-> deletion.count + 1,
                          conversation_id |-> conversation_id,
                          success |-> deleted.success,
                          status |-> IF deleted.success THEN 200 ELSE 404]
    /\ UNCHANGED <<use_canned_responses, chat_messages, conversation_rows, next_uuid,
                   clock, turns, turn>>
    /\ UNCHANGED <<variant, document_chunks, index_vars, search_vars, chunker, client_vars>>

\* One call of the Text Chunker.
SplitText ==
    /\ ~chunker.applied
    /\ chunker' = [chunker EXCEPT
                      !.chunks = _split_text_into_chunks(chunker.text, chunker.chunk_size,
                                                         chunker.overlap),
                      !.applied = TRUE]
    /\ UNCHANGED <<variant, document_chunks, index_vars, search_vars, chat_vars, client_vars>>

(***************************************************************************)
(* Gateway: the shared RAG client in save_document                          *)
(***************************************************************************)
\* BaseServiceClient.__init__: the client starts with the configured timeout.
NewClient == [timeout |-> ConfiguredTimeout]

IdleRequest ==
    [pc |-> "idle", original_timeout |-> 0, effective_timeout |-> 0, response |-> "none"]

NoSaveRequests ==
    /\ rag_chatbot = NewClient
    /\ save_requests = [r \in Requests |-> IdleRequest]

\* original_timeout = rag_chatbot.timeout
SaveReadTimeout(r) ==
    /\ save_requests[r].pc = "idle"
    /\ save_requests' = [save_requests EXCEPT ![r] =
                            [@ EXCEPT !.pc = "read",
                                      !.original_timeout = rag_chatbot.timeout]]
    /\ UNCHANGED <<variant, document_chunks, index_vars, search_vars, chat_vars, chunker,
                   rag_chatbot>>

\* rag_chatbot.timeout = 120
SaveRaiseTimeout(r) ==
    /\ save_requests[r].pc = "read"
    /\ rag_chatbot' = [rag_chatbot EXCEPT !.timeout = RebuildRequestTimeout]
    /\ save_requests' = [save_requests EXCEPT ![r] = [@ EXCEPT !.pc = "raised"]]
    /\ UNCHANGED <<variant, document_chunks, index_vars, search_vars, chat_vars, chunker>>

\* rag_chatbot._make_request("POST", "/admin/rebuild-index"): sent with the
\* client's timeout of that moment; it returns a response or raises.
SaveRequestRebuild(r) ==
    /\ save_requests[r].pc = "raised"
    /\ \E outcome \in {"success", "error", "raised"} :
          save_requests' = [save_requests EXCEPT ![r] =
                               [@ EXCEPT !.pc = "requested",
                                         !.effective_timeout = rag_chatbot.timeout,
                                         !.response = outcome]]
    /\ UNCHANGED <<variant, document_chunks, index_vars, search_vars, chat_vars, chunker,
                   rag_chatbot>>

\* finally: rag_chatbot.timeout = original_timeout
SaveRestoreTimeout(r) ==
    /\ save_requests[r].pc = "requested"
    /\ rag_chatbot' = [rag_chatbot EXCEPT !.timeout = save_requests[r].original_timeout]
    /\ save_requests' = [save_requests EXCEPT ![r] = [@ EXCEPT !.pc = "done"]]
    /\ UNCHANGED <<variant, document_chunks, index_vars, search_vars, chat_vars, chunker>>

Init ==
    /\ variant \in Variants
    /\ gateway_docs \in Sources
    /\ document_chunks = <<>>
    /\ rb = [w \in Workers |-> IdleWorker]
    /\ save = IdleSave
    /\ rebuilds = 0
    /\ saves = 0
    /\ faults = 0
    /\ edits = 0
    /\ NoSaveRequests
    /\ last_run = "none"
    /\ NoSearch
    /\ NoChat
    /\ chunker = NoChunker

\* Rebuild requests against a Document Source that does not change.
Next ==
    \/ \E w \in Workers : RebuildStart(w)
    \/ \E w \in Workers : RebuildDoc(w)
    \/ \E w \in Workers : RebuildChunk(w)
    \/ \E w \in Workers : RebuildCommit(w)
    \/ \E w \in Workers : RebuildFinal(w)

Spec == Init /\ [][Next]_vars

\* Rebuilds over a Document Source whose documents are edited and deleted.
NextSource ==
    \/ Next
    \/ \E d \in DocIds, summary \in UpdateSummaries : UpdateDocument(d, summary)
    \/ \E d \in DocIds : DeleteDocument(d)

SpecSource == Init /\ [][NextSource]_vars

InitSave ==
    /\ variant \in Variants
    /\ gateway_docs = <<>>
    /\ document_chunks = <<>>
    /\ rb = [w \in Workers |-> IdleWorker]
    /\ save = IdleSave
    /\ rebuilds = 0
    /\ saves = 0
    /\ faults = 0
    /\ edits = 0
    /\ NoSaveRequests
    /\ last_run = "none"
    /\ NoSearch
    /\ NoChat
    /\ chunker = NoChunker

\* save_document requests, each syncing its document and asking for a rebuild.
NextSave ==
    \/ \E d \in DocIds, u \in Uploads : SaveInsert(d, u)
    \/ SaveSync
    \/ \E w \in Workers : SaveRebuild(w)
    \/ SaveRebuildFailed
    \/ \E w \in Workers : RebuildDoc(w)
    \/ \E w \in Workers : RebuildChunk(w)
    \/ \E w \in Workers : RebuildCommit(w)
    \/ \E w \in Workers : RebuildFinal(w)

SpecSave == InitSave /\ [][NextSave]_vars

InitSearch ==
    /\ variant \in Variants
    /\ document_chunks \in SampleStores
    /\ quiz_templates \in SampleTemplates
    /\ query = <<>>
    /\ top_k = 0
    /\ results = <<>>
    /\ gateway_docs = <<>>
    /\ rb = [w \in Workers |-> IdleWorker]
    /\ save = IdleSave
    /\ rebuilds = 0
    /\ saves = 0
    /\ faults = 0
    /\ edits = 0
    /\ NoSaveRequests
    /\ last_run = "none"
    /\ NoChat
    /\ chunker = NoChunker

NextSearch == \E q \in Queries, k \in 0..MaxTopK : SearchDocuments(q, k)

SpecSearch == InitSearch /\ [][NextSearch]_vars

InitChat ==
    /\ variant \in Variants
    /\ gateway_docs = <<>>
    /\ document_chunks \in SampleStores
    /\ rb = [w \in Workers |-> IdleWorker]
    /\ save = IdleSave
    /\ rebuilds = 0
    /\ saves = 0
    /\ faults = 0
    /\ edits = 0
    /\ NoSaveRequests
    /\ last_run = "none"
    /\ NoSearch
    /\ chunker = NoChunker
    /\ use_canned_responses \in BOOLEAN
    /\ conversations \in SampleConversations
    /\ chat_messages = <<>>
    /\ conversation_rows = <<>>
    /\ deletion = NoDeletion
    /\ next_uuid = 1
    /\ clock = 0
    /\ turns = 0
    /\ turn = NoTurn

\* Chat requests, handled one at a time by the event loop.
NextChat ==
    \/ \E request_id \in ConvIds \cup {None}, q \in ChatQueries :
          chat_with_rag(request_id, q, DefaultTopK)
    \/ \E q \in ChatQueries : quick_chat(q, DefaultTopK)
    \/ \E conversation_id \in ConvIds, q \in ChatQueries :
          chat_in_conversation(conversation_id, q, DefaultTopK)

SpecChat == InitChat /\ [][NextChat]_vars

\* The Text Chunker on its own, over every text, chunk_size and overlap of
\* the bounds.
InitChunker ==
    /\ variant \in Variants
    /\ gateway_docs = <<>>
    /\ document_chunks = <<>>
    /\ rb = [w \in Workers |-> IdleWorker]
    /\ save = IdleSave
    /\ rebuilds = 0
    /\ saves = 0
    /\ faults = 0
    /\ edits = 0
    /\ NoSaveRequests
    /\ last_run = "none"
    /\ NoSearch
    /\ NoChat
    /\ \E text \in ChunkerTexts, chunk_size \in {SmallChunkSize, ChunkSize},
          overlap \in {0, Overlap} :
          chunker = [NoChunker EXCEPT !.text = text, !.chunk_size = chunk_size,
                                      !.overlap = overlap]

NextChunker == SplitText

SpecChunker == InitChunker /\ [][NextChunker]_vars

\* The conversation endpoints of a service that answers from its canned
\* responses (USE_CANNED_LLM=true).
InitConversations ==
    /\ InitChat
    /\ use_canned_responses = TRUE

NextConversations ==
    \/ \E conversation_id \in ConvIds, q \in ChatQueries :
          chat_in_conversation(conversation_id, q, DefaultTopK)
    \/ \E conversation_id \in ConvIds : DeleteConversation(conversation_id)

SpecConversations == InitConversations /\ [][NextConversations]_vars

\* Concurrent save_document requests at their rebuild-index step.
NextTimeout ==
    \/ \E r \in Requests : SaveReadTimeout(r)
    \/ \E r \in Requests : SaveRaiseTimeout(r)
    \/ \E r \in Requests : SaveRequestRebuild(r)
    \/ \E r \in Requests : SaveRestoreTimeout(r)

SpecTimeout == Init /\ [][NextTimeout]_vars

(***************************************************************************)
(* Properties                                                               *)
(***************************************************************************)
\* The rows of the store that belong to a document of a worker's list.
DocPosition(r, doc_id) == {j \in 1..Len(r.docs) : r.docs[j].document_id = doc_id}

\* The chunk ids rebuild_index derives for a document.
ExpectedIds(doc) ==
    LET text == rebuild_text(variant, doc)
        text_chunks == _split_text_into_chunks(text, ChunkSize, Overlap)
    IN IF text = <<>> \/ Len(text) < min_length(variant) THEN {}
       ELSE {rebuild_chunk_id(variant, doc.document_id, i - 1) : i \in 1..Len(text_chunks)}

\* C1 (as stated): a rebuild that follows a rebuild which returned normally,
\* with nothing else touching the Document Source or the Chunk Store in
\* between or meanwhile, creates no chunk and leaves the chunk count unchanged.
C1_SecondRebuildCreatesNothing ==
    \A w \in Workers :
        (Ended(w) /\ rb[w].clean /\ rb[w].after_run \in {"full", "timeout"})
            => (rb[w].chunks_created = 0 /\ rb[w].count_after = rb[w].count_before)

\* C1 (amended): a rebuild that follows a rebuild which processed every document
\* (it was not stopped by the time budget and no document or commit failed),
\* with nothing else touching the Document Source or the Chunk Store in
\* between or meanwhile, creates no chunk and leaves the chunk count unchanged.
C1_SecondRebuildAfterFullCreatesNothing ==
    \A w \in Workers :
        (Ended(w) /\ rb[w].clean /\ rb[w].after_run = "full")
            => (rb[w].chunks_created = 0 /\ rb[w].count_after = rb[w].count_before)

C1_Witness ==
    \E w \in Workers :
        /\ Ended(w) /\ rb[w].clean /\ rb[w].after_run = "full"
        /\ rb[w].docs # <<>>
        /\ rb[w].count_before > 0
        /\ rb[w].chunks_skipped > 0

\* C2: no two stored chunks share (document_id, chunk_index).
C2_OneChunkPerDocumentIndex ==
    \A i, j \in 1..Len(document_chunks) :
        (/\ document_chunks[i].document_id = document_chunks[j].document_id
         /\ document_chunks[i].chunk_index = document_chunks[j].chunk_index) => i = j

\* C7: when a rebuild that no other writer disturbed and that the time budget
\* did not stop has seen a document fail, it still ends normally, the failed
\* documents are counted as skipped (where the rebuild counts), and every
\* later document that did not fail itself has all its chunks in the store.
C7_FailedDocumentDoesNotAbort ==
    \A w \in Workers :
        (/\ Ended(w) /\ rb[w].clean /\ ~rb[w].timed_out
         /\ rb[w].faulted # {}
         /\ rb[w].faulted \subseteq 1..Len(rb[w].docs))
            => /\ rb[w].pc = "done"
               /\ variant = "temp" => rb[w].chunks_skipped >= Cardinality(rb[w].faulted)
               /\ \A j \in 1..Len(rb[w].docs) :
                     (j \notin rb[w].faulted /\ \E i \in rb[w].faulted : i < j)
                        => ExpectedIds(rb[w].docs[j]) \subseteq StoredIds

\* C8: a rebuild that the time budget stops at the head of a document's
\* iteration (no other writer disturbing it, no storage failure) has processed
\* no document from that one on, ends normally, and every chunk it produced
\* from the earlier documents is in the Chunk Store.
C8_TimeoutStopsWithPartialResult ==
    \A w \in Workers :
        (Ended(w) /\ rb[w].timed_out /\ rb[w].clean /\ rb[w].faulted = {})
            => /\ rb[w].pc = "done"
               /\ rb[w].batch_buffer = <<>>
               /\ \A c \in rb[w].produced :
                     /\ c.chunk_id \in StoredIds
                     /\ \E j \in DocPosition(rb[w], c.document_id) : j < rb[w].doc_idx
               /\ rb[w].chunks_created = Cardinality(rb[w].produced)

C8_Witness ==
    \E w \in Workers :
        /\ Ended(w) /\ rb[w].timed_out /\ rb[w].clean /\ rb[w].faulted = {}
        /\ rb[w].doc_idx = Len(rb[w].docs)
        /\ Cardinality(rb[w].produced) % BatchSize # 0

\* C9: at most one rebuild_index execution is running at any time.
C9_AtMostOneRebuildRunning == Cardinality({w \in Workers : Running(w)}) <= 1

\* C10: a search never returns more than top_k documents.
C10_TopKBound == Len(results) <= top_k

C10_Witness ==
    /\ results # <<>>
    /\ Len(results) < Len(_search_stored_chunks(variant, query, Len(document_chunks)))

Handled == turn.endpoint # "none"

\* The latest turn changed the Conversation Manager's state.
Stored == conversations # turn.conversations_before

\* The conversations the latest turn created.
Created == DOMAIN conversations \ DOMAIN turn.conversations_before

\* The Language Model call failed: no model of the list answered, and at least
\* one of the calls raised (an API error or a timeout).
LlmCallFailed ==
    /\ turn.llm_attempts # <<>>
    /\ \A i \in 1..Len(turn.llm_attempts) : ~Answers(turn.llm_attempts[i])
    /\ \E i \in 1..Len(turn.llm_attempts) : turn.llm_attempts[i].raises

\* Every call to the Language Model that was made returned text that is empty
\* or blank.
LlmTextEmpty ==
    /\ turn.llm_attempts # <<>>
    /\ \A i \in 1..Len(turn.llm_attempts) :
          ~turn.llm_attempts[i].raises /\ strip(turn.llm_attempts[i].text) = <<>>

\* C3: a chat turn whose document retrieval raised is carried on as a turn
\* that retrieved nothing: the Language Model is asked and the response has
\* context_used = false and no retrieved document.
C3_RetrievalFailureNotFatal ==
    (Handled /\ turn.broken.retrieve)
        => /\ turn.llm_called
           /\ ~turn.response.context.context_used
           /\ turn.response.context.retrieved_count = 0
           /\ turn.response.retrieved_documents = <<>>

C5_EmptyLlmTextGivesApology ==
    Handled => /\ turn.response.answer # <<>>
               /\ LlmTextEmpty => turn.response.answer = APOLOGY

\* C6 (as stated): a POST /chat request without conversation_id is handled
\* without a conversation id, creates no conversation state and is logged
\* under "standalone".
C6_ChatWithoutIdIsStandalone ==
    (Handled /\ turn.endpoint = "/chat" /\ turn.request_id = None)
        => /\ turn.conversation_id = None
           /\ turn.response.conversation_id = None
           /\ ~Stored
           /\ turn.log_key = <<"standalone">>

\* C6 (amended): a POST /chat/quick request (it carries no conversation_id) is
\* a standalone turn: no conversation id is generated for it, the Conversation
\* Manager's state is left as it was, and the row logged for it (if the log
\* write succeeds) has the key "standalone".  A POST /chat request without
\* conversation_id is given a newly generated id: its log row has that id, and
\* unless the turn ends in the error response its two messages are stored in a
\* new conversation of that id.
C6_QuickChatIsStandalone ==
    /\ (Handled /\ turn.endpoint = "/chat/quick")
          => /\ turn.conversation_id = None
             /\ turn.response.conversation_id = None
             /\ next_uuid = turn.uuids_before
             /\ ~Stored /\ Created = {}
             /\ turn.log_key = <<"standalone">>
             /\ turn.logged => chat_messages[Len(chat_messages)].conversation_id
                                   = <<"standalone">>
    /\ (Handled /\ turn.endpoint = "/chat" /\ turn.request_id = None)
          => /\ turn.conversation_id = <<"uuid", turn.uuids_before>>
             /\ next_uuid = turn.uuids_before + 1
             /\ turn.response.conversation_id = turn.conversation_id
             /\ turn.log_key = turn.conversation_id
             /\ turn.logged => chat_messages[Len(chat_messages)].conversation_id
                                   = turn.conversation_id
             /\ turn.llm_called
                   => /\ Created = {turn.conversation_id}
                      /\ Len(conversations[turn.conversation_id].messages) = 2
             /\ ~turn.llm_called => ~Stored

C6_Witness ==
    /\ Handled /\ turn.endpoint = "/chat/quick"
    /\ turn.llm_called /\ turn.logged
    /\ conversations # <<>>

\* The history part of the message list the latest turn handed to the
\* adapter: what lies between the system message and the user prompt.
RecentWindow == SubSeq(turn.messages, 2, Len(turn.messages) - 1)

\* The messages the turn's conversation held when the request arrived.
StoredBefore ==
    IF turn.conversation_id \in DOMAIN turn.conversations_before
    THEN turn.conversations_before[turn.conversation_id].messages
    ELSE <<>>

\* C11: the recent window a turn uses for the Language Model's context never
\* has more than 6 messages, and for a conversation that holds more than 6
\* messages it is exactly the 6 most recently appended ones, in arrival order.
C11_RecentWindowIsLastSix ==
    (Handled /\ turn.llm_called)
        => /\ Len(RecentWindow) <= 6
           /\ Len(StoredBefore) > 6
                 => /\ Len(RecentWindow) = 6
                    /\ \A i \in 1..6 :
                          RecentWindow[i] = StoredBefore[Len(StoredBefore) - 6 + i]

C11_Witness ==
    /\ Handled /\ turn.llm_called
    /\ Len(StoredBefore) = 8
    /\ Len(RecentWindow) = 6
    /\ RecentWindow[1] = StoredBefore[3]
    /\ RecentWindow[1] # StoredBefore[1]

IsPrefix(xs, ys) == Len(xs) <= Len(ys) /\ SubSeq(ys, 1, Len(xs)) = xs

\* C12: a chat turn only appends to a conversation: every conversation held
\* before the turn is still held after it, and its messages before the turn
\* are, unchanged and in the same order, the first messages after it, so the
\* messages of an earlier turn precede those of a later one.
C12_MessagesAppendOnly ==
    [][turns' # turns
          => \A c \in DOMAIN conversations :
                /\ c \in DOMAIN conversations'
                /\ IsPrefix(conversations[c].messages, conversations'[c].messages)]_vars

C12_Witness ==
    /\ Handled /\ Stored
    /\ Len(StoredBefore) = 2
    /\ Len(conversations[turn.conversation_id].messages) = 4
    /\ IsPrefix(StoredBefore, conversations[turn.conversation_id].messages)
    /\ conversations[turn.conversation_id].messages[3] = [role |-> "user", content |-> turn.query]

\* The chat_messages rows logged for conversation c, in insertion order.
RowsOf(c) == SelectSeq(chat_messages, LAMBDA row : row.conversation_id = c)

\* C13: in every state, each conversation that has logged turns has a
\* conversations row whose message_count is the number of those turns and
\* whose last_message is the preview of the latest one.  (Does not hold: no
\* request creates the conversations row that log_chat_message updates.)
C13_CountAndPreviewMatchStoredTurns ==
    \A i \in 1..Len(chat_messages) :
        LET c == chat_messages[i].conversation_id
        IN /\ c \in DOMAIN conversation_rows
           /\ conversation_rows[c].message_count = Len(RowsOf(c))
           /\ conversation_rows[c].last_message
                 = MessagePreview(RowsOf(c)[Len(RowsOf(c))].user_query)

\* C14: DELETE of a conversation the engine holds answers true and leaves
\* neither the conversation nor any stored message of it; DELETE of an unknown
\* id answers false and changes nothing.  (Does not hold: the chat_messages
\* rows of the conversation stay in rag_chatbot.db.)
C14_DeleteRemovesConversationAndMessages ==
    [][deletion'.count # deletion.count
          => LET c == deletion'.conversation_id
             IN IF c \in DOMAIN conversations
                THEN /\ deletion'.success
                     /\ c \notin DOMAIN conversations'
                     /\ \A i \in 1..Len(chat_messages') :
                           chat_messages'[i].conversation_id # c
                ELSE /\ ~deletion'.success
                     /\ UNCHANGED <<conversations, chat_messages, conversation_rows>>]_vars

\* The rebuild of worker w could not open its Chunk Store session.
SessionNotOpened(w) == 0 \in rb[w].faulted

\* C15: a rebuild that has ended reports failure to its caller exactly when
\* it could not open the Chunk Store session.  (Does not hold: one variant
\* raises on a failed final commit, the other returns normally when the
\* session cannot be opened.)
C15_FailureIffSessionNotOpened ==
    \A w \in Workers :
        Ended(w) => (rb[w].pc = "failed" <=> SessionNotOpened(w))

\* A text with its blanks removed.
NonSpace(s) == SelectSeq(s, LAMBDA c : ~IsSpace(c))

\* The chunks from the i-th on, each read without an overlap prefix of at
\* most `overlap` characters (none for the first chunk), spell `rest`.
RECURSIVE Covers(_, _, _, _)
Covers(chunks, i, rest, overlap) ==
    IF i > Len(chunks) THEN rest = <<>>
    ELSE \E p \in 0..(IF i = 1 THEN 0 ELSE Min(overlap, Len(chunks[i]))) :
            LET body == NonSpace(SubSeq(chunks[i], p + 1, Len(chunks[i])))
            IN /\ IsPrefix(body, rest)
               /\ Covers(chunks, i + 1, SubSeq(rest, Len(body) + 1, Len(rest)), overlap)

\* The sentences of the chunker's text, in order, blanks apart.
SentenceSequence == NonSpace(Concat(re_split_sentences(chunker.text)))

\* C16 as stated: for any text, the chunks read in order without their
\* overlap prefixes contain every sentence of the text in the original order.
C16_NoSentenceDropped ==
    chunker.applied => Covers(chunker.chunks, 1, SentenceSequence, chunker.overlap)

\* C16, amended: the same for every text of at least 10 characters whose
\* chunks stay below the ceiling of max_chunks.
C16_NoSentenceDroppedAboveMinimum ==
    (/\ chunker.applied
     /\ Len(chunker.text) >= 10
     /\ Len(chunker.chunks) < max_chunks)
        => Covers(chunker.chunks, 1, SentenceSequence, chunker.overlap)

C16_Witness ==
    /\ chunker.applied
    /\ Len(chunker.text) >= 10
    /\ chunker.overlap > 0
    /\ Len(chunker.chunks) >= 3
    /\ Len(re_split_sentences(chunker.text)) >= 3
    /\ \A i \in 1..Len(chunker.chunks) : Len(chunker.chunks[i]) > chunker.overlap
    /\ Covers(chunker.chunks, 1, SentenceSequence, chunker.overlap)

\* C17: with overlap < chunk_size, no chunk the chunker returns is longer
\* than chunk_size characters.  (Does not hold: a sentence is never cut, and
\* the overlap seed is added on top of the next sentence.)
C17_ChunkWithinChunkSize ==
    (chunker.applied /\ chunker.overlap < chunker.chunk_size)
        => \A i \in 1..Len(chunker.chunks) : Len(chunker.chunks[i]) <= chunker.chunk_size

LongerText(doc) ==
    IF Len(strip(doc.extracted_text)) >= Len(strip(doc.summary))
    THEN strip(doc.extracted_text) ELSE strip(doc.summary)

\* C19: the chunks a rebuild indexes for a document are those of the longer
\* of its extracted_text and summary (extracted_text on a tie).  (Does not
\* hold: one variant takes extracted_text whenever it is not empty.)
C19_IndexesLongerText ==
    \A w \in Workers :
        rb[w].pc = "chunk"
            => rb[w].text_chunks
                  = _split_text_into_chunks(LongerText(rb[w].docs[rb[w].doc_idx]),
                                            ChunkSize, Overlap)

\* C20: a rebuild's insert buffer never holds more than batch_size chunks,
\* and a rebuild that has ended has no chunk left in it.  (Does not hold: a
\* flush that fails leaves its chunks in the buffer.)
C20_BufferBoundedAndFlushed ==
    \A w \in Workers :
        /\ Len(rb[w].batch_buffer) <= BatchSize
        /\ Ended(w) => rb[w].batch_buffer = <<>>

\* C21: a chat turn that carries a conversation_id is recorded in the
\* chat_messages log exactly when its two messages were appended to the
\* in-memory conversation.  (Does not hold: a log write that fails is
\* swallowed, and a turn that ends in the error answer is logged although
\* it was never appended.)
C21_LogAgreesWithConversation ==
    (Handled /\ turn.conversation_id # None) => (turn.logged <=> Stored)

\* The rows of a store that belong (or do not belong) to a document.
RowsOfDocument(rows, doc_id) == SelectSeq(rows, LAMBDA c : c.document_id = doc_id)

RowsOfOthers(rows, doc_id) == SelectSeq(rows, LAMBDA c : c.document_id # doc_id)

\* The chunks of the content a targeted re-index takes from a document.
NewContentChunks(doc) == split_text_into_chunks(LongerText(doc), ChunkSize, Overlap)

\* rows are, in order, the chunks of the document's new content.
HoldsNewContent(rows, doc) ==
    /\ Len(rows) = Len(NewContentChunks(doc))
    /\ \A i \in 1..Len(rows) :
          /\ rows[i].content = NewContentChunks(doc)[i]
          /\ rows[i].chunk_index = i - 1

\* C22: a targeted re-index of one document either leaves the Chunk Store as
\* it was, or leaves for that document exactly the chunks of its new content;
\* the chunks of every other document are the same before and after.
C22_ReindexAllOrNothing ==
    [][(save.pc = "sync" /\ save'.pc = "rebuild")
          => /\ RowsOfOthers(document_chunks', save.doc.document_id)
                   = RowsOfOthers(document_chunks, save.doc.document_id)
             /\ \/ document_chunks' = document_chunks
                \/ HoldsNewContent(RowsOfDocument(document_chunks', save.doc.document_id),
                                   save.doc)]_vars

C22_Witness ==
    /\ save.pc = "rebuild"
    /\ HoldsNewContent(RowsOfDocument(document_chunks, save.doc.document_id), save.doc)
    /\ RowsOfOthers(document_chunks, save.doc.document_id) # <<>>
    /\ \E i \in 1..Len(document_chunks) :
          /\ document_chunks[i].document_id = save.doc.document_id
          /\ document_chunks[i].chunk_id = sync_chunk_id(save.doc.document_id, 0, 1)

\* C23: no step of a rebuild removes or alters a stored chunk: the rows the
\* Chunk Store held before the step are, unchanged and in the same order, its
\* first rows after it, whatever has happened to the documents they came from.
C23_RebuildAddOnly ==
    [][IsPrefix(document_chunks, document_chunks')]_vars

\* A rebuild has ended that started from a source in which one indexed
\* document was no longer listed and another had a different text, and the
\* chunks of both are still stored.
C23_Witness ==
    \E w \in Workers :
        /\ rb[w].pc = "done" /\ rb[w].docs # <<>>
        /\ \E i \in 1..Len(document_chunks) :
              \A j \in 1..Len(rb[w].docs) :
                 rb[w].docs[j].document_id # document_chunks[i].document_id
        /\ \E i \in 1..Len(document_chunks), j \in 1..Len(rb[w].docs) :
              /\ rb[w].docs[j].document_id = document_chunks[i].document_id
              /\ document_chunks[i].chunk_index = 0
              /\ LET text_chunks == _split_text_into_chunks(
                                        rebuild_text(variant, rb[w].docs[j]), ChunkSize,
                                        Overlap)
                 IN /\ text_chunks # <<>>
                    /\ document_chunks[i].content # text_chunks[1]

\* The number of stored rows that carry a chunk_id.
TimesStored(chunk_id) ==
    Cardinality({i \in 1..Len(document_chunks) : document_chunks[i].chunk_id = chunk_id})

\* Every rebuild has returned normally, none was stopped by its time budget
\* and no storage call failed on its own.
BothFinished ==
    /\ \A w \in Workers :
          rb[w].pc = "done" /\ rb[w].docs # <<>> /\ ~rb[w].timed_out
    /\ faults = 0

\* C24: when two rebuilds over the same Document Source have both finished,
\* the Chunk Store holds each eligible chunk exactly once: no chunk_id twice,
\* and none missing because the other rebuild stored the same chunk_id
\* between a rebuild's existence check and its batch commit.  (Does not
\* hold: one variant rolls the whole batch back on the conflict and goes on.)
C24_ConcurrentRebuildsStoreEveryChunkOnce ==
    BothFinished
        => \A w \in Workers : \A j \in 1..Len(rb[w].docs) :
              \A chunk_id \in ExpectedIds(rb[w].docs[j]) : TimesStored(chunk_id) = 1

\* C25: once every concurrent save_document request has finished, the shared
\* RAG client's timeout is the configured one again.  (Does not hold: a
\* request that starts while another has the timeout raised saves 120 as the
\* original value and restores that.)
C25_TimeoutRestoredAfterAllSaves ==
    (\A r \in Requests : save_requests[r].pc = "done")
        => rag_chatbot.timeout = ConfiguredTimeout

\* What the turn's own retrieval gave: nothing when it raised.
OriginalRetrieval ==
    IF turn.broken.retrieve THEN <<>> ELSE retrieve_documents(turn.query, turn.top_k)

\* C26: the fallback query of a turn whose retrieval gave no document never
\* changes the turn's outcome: the Language Model is asked with the prompt of
\* no context, and the response has context_used = false and no retrieved
\* document.  (Does not hold: a fallback query that raises ends the turn in
\* the error answer.)
C26_FallbackNeverChangesOutcome ==
    (Handled /\ ~turn.broken.count /\ OriginalRetrieval = <<>>)
        => \E config \in ChatConfigs :
              /\ turn.llm_called
              /\ turn.response.context = _build_context(<<>>, config)
              /\ turn.response.retrieved_documents = <<>>
              /\ turn.messages # <<>>
              /\ turn.messages[Len(turn.messages)].content
                    = _build_user_prompt(turn.query, _build_context(<<>>, config), config)

\* The messages are user, assistant, user, assistant, ...
Alternating(messages) ==
    /\ Len(messages) % 2 = 0
    /\ \A i \in 1..Len(messages) :
          messages[i].role = IF i % 2 = 1 THEN "user" ELSE "assistant"

\* The latest turn left every conversation as it was.
ConversationsUntouched == conversations = turn.conversations_before

\* The latest turn appended its query and its answer, in that order, to the
\* conversation it was handled under, and touched no other conversation.
AppendedOneExchange ==
    /\ turn.conversation_id # None
    /\ DOMAIN conversations = DOMAIN turn.conversations_before \cup {turn.conversation_id}
    /\ conversations[turn.conversation_id].messages
          = StoredBefore \o Exchange(turn.query, turn.response.answer)
    /\ \A c \in DOMAIN turn.conversations_before :
          c # turn.conversation_id => conversations[c] = turn.conversations_before[c]

\* C27 (as stated): a chat turn appends one user message followed by one
\* assistant message or nothing, and a turn whose Language Model call raised
\* leaves the conversation exactly as it was.
C27_LlmFailureLeavesConversation ==
    Handled => /\ ConversationsUntouched \/ AppendedOneExchange
               /\ LlmCallFailed => ConversationsUntouched

\* C27 (amended): a chat turn appends to its conversation exactly one user
\* message followed by one assistant message, or nothing; a turn that ends in
\* the error answer (the Language Model was not asked) appends nothing, and a
\* turn in which every Language Model call raised appends the query with the
\* fixed apology as its reply.  Every conversation holds an even number of
\* messages alternating user, assistant.
C27_TurnAppendsExchangeOrNothing ==
    /\ Handled
          => /\ ConversationsUntouched \/ AppendedOneExchange
             /\ ~turn.llm_called => ConversationsUntouched
             /\ (turn.llm_called /\ turn.conversation_id # None) => AppendedOneExchange
             /\ (LlmCallFailed /\ turn.conversation_id # None)
                   => turn.response.answer = APOLOGY
    /\ \A c \in DOMAIN conversations : Alternating(conversations[c].messages)

\* Every Language Model call of a turn in a conversation of eight messages
\* raised, and the conversation now ends with the query and the apology.
C27_Witness ==
    /\ Handled /\ LlmCallFailed
    /\ \A i \in 1..Len(turn.llm_attempts) : turn.llm_attempts[i].raises
    /\ Len(StoredBefore) = 8
    /\ AppendedOneExchange
    /\ Len(conversations[turn.conversation_id].messages) = 10
    /\ conversations[turn.conversation_id].messages[10].content = APOLOGY

\* xs occurs in ys as a run of consecutive elements.
IsRunOf(xs, ys) ==
    \E off \in 0..(Len(ys) - Len(xs)) : SubSeq(ys, off + 1, off + Len(xs)) = xs

\* text holds first, then second after it.
HoldsInOrder(text, first, second) ==
    \E i \in 1..(Len(text) + 1), j \in 1..(Len(text) + 1) :
        /\ i + Len(first) <= j
        /\ j + Len(second) - 1 <= Len(text)
        /\ SubSeq(text, i, i + Len(first) - 1) = first
        /\ SubSeq(text, j, j + Len(second) - 1) = second

\* C28: the message list handed to the Language Model is one system message,
\* then at most 6 messages that the turn's conversation held before the turn,
\* in their stored order (none when there is no conversation id or no such
\* conversation), then one user message that holds the context text, when
\* there is one, and after it the query.
C28_MessageListShape ==
    (Handled /\ turn.llm_called)
        => LET n == Len(turn.messages)
               history == SubSeq(turn.messages, 2, n - 1)
               last == turn.messages[n]
               context_text == turn.response.context.context_text
           IN /\ n >= 2
              /\ turn.messages[1].role = "system"
              /\ \A i \in 2..n : turn.messages[i].role # "system"
              /\ Len(history) <= 6
              /\ IsRunOf(history, StoredBefore)
              /\ (\/ turn.conversation_id = None
                  \/ turn.conversation_id \notin DOMAIN turn.conversations_before)
                    => history = <<>>
              /\ last.role = "user"
              /\ IF turn.response.context.context_used
                 THEN HoldsInOrder(last.content, context_text, turn.query)
                 ELSE IsRunOf(turn.query, last.content)

\* A turn in a conversation of eight messages that retrieved a document: the
\* list has eight messages and the last one holds the document's text and
\* the query.
C28_Witness ==
    /\ Handled /\ turn.llm_called
    /\ Len(StoredBefore) = 8
    /\ Len(turn.messages) = 8
    /\ turn.response.context.context_used
    /\ turn.response.context.context_text # <<>>
    /\ turn.messages[2] = StoredBefore[3]
    /\ turn.messages[8].content # turn.query
    /\ HoldsInOrder(turn.messages[8].content, turn.response.context.context_text, turn.query)

\* The latest turn asked the Language Model through the adapter's loop over
\* the fallback models.
AdapterRan == Handled /\ turn.llm_attempts # <<>>

\* A call that returned text that is not the empty string.
YieldsText(outcome) == ~outcome.raises /\ outcome.text # <<>>

\* The models are tried in order, each at most once, and none after the
\* first that yields text.
TriedInOrderUntilText ==
    /\ Len(turn.llm_attempts) <= Len(model_fallback)
    /\ \A i \in 1..(Len(turn.llm_attempts) - 1) : ~YieldsText(turn.llm_attempts[i])
    /\ ~YieldsText(turn.llm_attempts[Len(turn.llm_attempts)])
          => Len(turn.llm_attempts) = Len(model_fallback)

C30_HalfTopKPerSearch ==
    /\ Len(_search_stored_chunks(variant, query, top_k \div 2)) <= top_k \div 2
    /\ Len(_search_quiz_content(query, top_k \div 2)) <= top_k \div 2
    /\ Len(results) <= 2 * (top_k \div 2)
    /\ top_k = 1 => results = <<>>

\* A search with top_k = 1 for a query that stored chunks match returned
\* nothing.
C30_Witness ==
    /\ top_k = 1
    /\ results = <<>>
    /\ query # <<>>
    /\ _search_stored_chunks(variant, query, Len(document_chunks)) # <<>>

====
